---- MODULE Spec2Model ----
(***************************************************************************)
(* Model of api/fastapi.py: the FastAPI application with the GET / probe   *)
(* and the POST /create-map handler.  The handler is a coroutine on a      *)
(* single-threaded event loop; its only suspension point is the            *)
(* `await run_in_threadpool(poster.create_poster, ...)` of line 55.        *)
(* The poster module (create_map_poster) is an external collaborator:      *)
(* every call into it either returns a value or raises, chosen             *)
(* nondeterministically.                                                   *)
(***************************************************************************)
EXTENDS Integers, Sequences, FiniteSets, TLC

\* ------------------------------------------------------------------ bounds
NumReqs == 2    \* POST /create-map requests
NumGets == 1    \* GET / requests answered

Reqs == 1..NumReqs

\* ------------------------------------------------------------ input values
\* JSON bodies a client may send to POST /create-map (absent keys are absent
\* from the record).
Bodies ==
  { [city |-> "Paris", country |-> "France"],
    [city |-> "", country |-> "", theme |-> "minimal",
     distance |-> 0, format |-> "bmp"],
    [country |-> "France", theme |-> "minimal"] }

\* Values the collaborators may return.
AvailableChoices == { <<"feature_based", "minimal">>, <<"noir", "sunset">> }
Points == { <<48, 2>> }
Paths == { "posters/a.png", "posters/b.svg" }

\* Exceptions the collaborators may raise: a class and its args tuple.
\* Exceptions: raised by the calls on the event loop; RenderErrors: raised by
\* create_poster in the worker thread.
Exceptions == { [cls |-> "ValueError", args |-> <<"lookup failed">>] }
RenderErrors ==
  { [cls |-> "OSError", args |-> <<"cannot write poster">>],
    [cls |-> "RuntimeError", args |-> <<>>] }
ImportErrors ==
  { [cls |-> "ModuleNotFoundError", args |-> <<"No module named 'osmnx'">>],
    [cls |-> "ImportError", args |-> <<"cannot import name 'THEME'">>] }

NoExc == [cls |-> "", args |-> <<>>]
NoPoint == <<>>
NoPath == ""
NoReq == [city |-> "", country |-> "", theme |-> "", distance |-> 0, format |-> ""]
InitialTheme == [name |-> ""]

\* ------------------------------------------------------------------- state
VARIABLES
  pc,         \* pc[r]: position of request r's handler coroutine
  req,        \* req[r]: the parsed CreateMapRequest
  resp,       \* resp[r]: the responses sent for request r, in order
  running,    \* the request whose coroutine holds the event loop, 0 if none
  imported,   \* create_map_poster is in sys.modules
  THEME,      \* poster.THEME, the module global
  available,  \* available[r]: the handler's local `available`
  point,      \* point[r]: the handler's local `point`
  out_path,   \* out_path[r]: the handler's local `out_path`
  future,     \* future[r]: outcome of the threadpool call awaited by r
  calls,      \* calls[r]: the import and the collaborator calls made for r, in order
  gresp       \* the responses sent to GET / requests, in order

vars == <<pc, req, resp, running, imported, THEME, available, point, out_path,
          future, calls, gresp>>
locals == <<available, point, out_path>>

\* ----------------------------------------------------------------- helpers
Range(s) == { s[i] : i \in 1..Len(s) }

\* str(e) of an exception: "" without args, the argument with one.
ExcStr(e) == IF Len(e.args) = 0 THEN "" ELSE e.args[1]

\* sep.join(seq): the items with sep between consecutive items.
RECURSIVE Join(_, _)
Join(sep, seq) ==
  IF Len(seq) = 0 THEN <<>>
  ELSE IF Len(seq) = 1 THEN <<seq[1]>>
  ELSE <<seq[1], sep>> \o Join(sep, Tail(seq))

\* A formatted string is the sequence of its literal and interpolated parts.
Text(parts) == [text |-> parts]

\* Field defaults of CreateMapRequest.
DefaultTheme == "feature_based"
DefaultDistance == 29000
DefaultFormat == "png"

\* Required fields (Field(...)) that the body lacks.
MissingFields(body) == { f \in {"city", "country"} : f \notin DOMAIN body }

\* pydantic's parse of a body that has every required field.
CreateMapRequest(body) ==
  [ city     |-> body.city,
    country  |-> body.country,
    theme    |-> IF "theme" \in DOMAIN body THEN body.theme ELSE DefaultTheme,
    distance |-> IF "distance" \in DOMAIN body THEN body.distance ELSE DefaultDistance,
    format   |-> IF "format" \in DOMAIN body THEN body.format ELSE DefaultFormat ]

\* The response FastAPI sends for a body that fails validation.
ValidationErrorResponse(body) ==
  [status |-> 422, body |-> [detail |-> [missing |-> MissingFields(body)]]]

\* raise HTTPException(status_code, detail)
HTTPException(status, detail) == [status |-> status, body |-> [detail |-> detail]]

\* The response of an exception that leaves the handler uncaught.
UnhandledResponse == [status |-> 500, body |-> Text(<<"Internal Server Error">>)]

\* The module imported at line 35.
PosterModule == "create_map_poster"

\* One import or collaborator call in the log: the function, its arguments,
\* whether it returned, and the value returned or the exception raised.
Call(fn, args, ok, val) == [fn |-> fn, args |-> args, ok |-> ok, val |-> val]

\* -------------------------------------------------------------------- Init
Init ==
  /\ pc = [r \in Reqs |-> "new"]
  /\ req = [r \in Reqs |-> NoReq]
  /\ resp = [r \in Reqs |-> <<>>]
  /\ running = 0
  /\ imported = FALSE
  /\ THEME = InitialTheme
  /\ available = [r \in Reqs |-> <<>>]
  /\ point = [r \in Reqs |-> NoPoint]
  /\ out_path = [r \in Reqs |-> NoPath]
  /\ future = [r \in Reqs |-> [state |-> "none", exc |-> NoExc]]
  /\ calls = [r \in Reqs |-> <<>>]
  /\ gresp = <<>>

\* ----------------------------------------------------------------- GET /
\* Variant of RootResponse: another greeting.
RootResponseOther == [status |-> 200, body |-> [message |-> "Hello"]]

\* The payload of root() (line 21).
RootResponse == [status |-> 200, body |-> [message |-> "Hello World"]]

\* root() answers a GET /: it runs on the event loop when the loop is free,
\* start to end without suspending.
root ==
  /\ Len(gresp) < NumGets
  /\ running = 0
  /\ gresp' = Append(gresp, RootResponse)
  /\ UNCHANGED <<pc, req, resp, running, imported, THEME, locals, future, calls>>

\* ------------------------------------------------------ POST /create-map
\* POST /create-map arrives: when the event loop is free, FastAPI parses the
\* body into a CreateMapRequest and schedules the handler, or answers 422
\* without calling the handler.
Post(r, body) ==
  /\ pc[r] = "new"
  /\ running = 0
  /\ \A q \in Reqs : q < r => pc[q] # "new"
  /\ IF MissingFields(body) = {}
     THEN /\ req' = [req EXCEPT ![r] = CreateMapRequest(body)]
          /\ pc' = [pc EXCEPT ![r] = "ready"]
          /\ UNCHANGED resp
     ELSE /\ resp' = [resp EXCEPT ![r] = Append(@, ValidationErrorResponse(body))]
          /\ pc' = [pc EXCEPT ![r] = "done"]
          /\ UNCHANGED req
  /\ UNCHANGED <<running, imported, THEME, locals, future, calls, gresp>>

\* Variant of ImportFailedDetail: the exception's class in place of its message.
ImportFailedDetailClassName(e) == Text(<<"Failed to import poster module: ", e.cls>>)

\* detail of the import-failure response (line 37).
ImportFailedDetail(e) == Text(<<"Failed to import poster module: ", ExcStr(e)>>)

\* Variant of ThemeNotFoundDetail: the listing stops one theme short.
ThemeNotFoundDetailDropsLast(theme, avail) ==
  Text(<<"Theme '", theme, "' not found. Available: ">>
       \o Join(", ", SubSeq(avail, 1, Len(avail) - 1)))

\* detail of the unknown-theme response (line 42).
ThemeNotFoundDetail(theme, avail) ==
  Text(<<"Theme '", theme, "' not found. Available: ">> \o Join(", ", avail))

\* traceback.format_exc() in the except block: the frame that raised and
\* the exception.
format_exc(fn, e) ==
  Text(<<"Traceback (most recent call last):", fn, e.cls, ExcStr(e)>>)

\* Variant of ErrorDetail: the exception's class in place of str(e).
ErrorDetailClassName(e, tb) == [error |-> e.cls, traceback |-> tb]

\* detail of the catch-all response (line 61).
ErrorDetail(e, tb) == [error |-> ExcStr(e), traceback |-> tb]

\* The success payload (line 57).
MapResult(path) == [status |-> 200, body |-> [output_file |-> path]]

\* The theme object load_theme returns for a name.
load_theme(name) == [name |-> name]

\* Variant of GenerateOutputFilenameArgs: the default format in place of
\* the request's.
GenerateOutputFilenameArgsDefaultFormat(q) == <<q.city, q.theme, "png">>

\* Variant of CreatePosterArgs: the last two arguments swapped.
CreatePosterArgsSwapped(q, pt, path) ==
  <<q.city, q.country, pt, q.distance, q.format, path>>

\* Argument tuples of the collaborator calls (lines 49, 52, 55).
GetCoordinatesArgs(q) == <<q.city, q.country>>
GenerateOutputFilenameArgs(q) == <<q.city, q.theme, q.format>>
CreatePosterArgs(q, pt, path) ==
  <<q.city, q.country, pt, q.distance, path, q.format>>

\* The handler ends with a response: the coroutine finishes and the event
\* loop is free again.
Respond(r, response) ==
  /\ resp' = [resp EXCEPT ![r] = Append(@, response)]
  /\ pc' = [pc EXCEPT ![r] = "done"]
  /\ running' = 0

\* except Exception as e (lines 59-61), e raised by collaborator fn.
Except(r, fn, e) ==
  Respond(r, HTTPException(500, ErrorDetail(e, format_exc(fn, e))))

\* Line 35, import succeeds: the handler starts when the event loop is free.
ImportPoster(r) ==
  /\ pc[r] = "ready"
  /\ running = 0
  /\ imported' = TRUE
  /\ running' = r
  /\ calls' = [calls EXCEPT ![r] = Append(@, Call("import", <<PosterModule>>, TRUE, NoExc))]
  /\ pc' = [pc EXCEPT ![r] = "themes"]
  /\ UNCHANGED <<req, resp, THEME, locals, future, gresp>>

\* Lines 35-37, import raises: a module already imported does not fail.
ImportPosterFails(r, e) ==
  /\ pc[r] = "ready"
  /\ running = 0
  /\ ~imported
  /\ calls' = [calls EXCEPT ![r] = Append(@, Call("import", <<PosterModule>>, FALSE, e))]
  /\ Respond(r, HTTPException(500, ImportFailedDetail(e)))
  /\ UNCHANGED <<req, imported, THEME, locals, future, gresp>>

\* Line 40, get_available_themes returns.
GetAvailableThemes(r, avail) ==
  /\ pc[r] = "themes"
  /\ running = r
  /\ available' = [available EXCEPT ![r] = avail]
  /\ calls' = [calls EXCEPT ![r] = Append(@, Call("get_available_themes", <<>>, TRUE, avail))]
  /\ pc' = [pc EXCEPT ![r] = "check"]
  /\ UNCHANGED <<req, resp, running, imported, THEME, point, out_path, future, gresp>>

\* Line 40, get_available_themes raises: the call is outside the try block,
\* so the exception leaves the handler.
GetAvailableThemesRaises(r, e) ==
  /\ pc[r] = "themes"
  /\ running = r
  /\ calls' = [calls EXCEPT ![r] = Append(@, Call("get_available_themes", <<>>, FALSE, e))]
  /\ Respond(r, UnhandledResponse)
  /\ UNCHANGED <<req, imported, THEME, locals, future, gresp>>

\* Variant of ValidateTheme: the theme is loaded into the module global
\* before its name is checked.
ValidateThemeAfterLoad(r) ==
  /\ pc[r] = "check"
  /\ running = r
  /\ THEME' = [name |-> req[r].theme]
  /\ IF req[r].theme \notin Range(available[r])
     THEN Respond(r, HTTPException(400, ThemeNotFoundDetail(req[r].theme, available[r])))
     ELSE /\ pc' = [pc EXCEPT ![r] = "load"]
          /\ UNCHANGED <<resp, running>>
  /\ UNCHANGED <<req, imported, locals, future, calls, gresp>>

\* Lines 41-42, the theme validation.
ValidateTheme(r) ==
  /\ pc[r] = "check"
  /\ running = r
  /\ IF req[r].theme \notin Range(available[r])
     THEN Respond(r, HTTPException(400, ThemeNotFoundDetail(req[r].theme, available[r])))
     ELSE /\ pc' = [pc EXCEPT ![r] = "load"]
          /\ UNCHANGED <<resp, running>>
  /\ UNCHANGED <<req, imported, THEME, locals, future, calls, gresp>>

\* Variant of LoadTheme: the loaded theme is kept in a local and the module
\* global is not assigned.
LoadThemeNotAssigned(r) ==
  /\ pc[r] = "load"
  /\ running = r
  /\ calls' = [calls EXCEPT ![r] =
                 Append(@, Call("load_theme", <<req[r].theme>>, TRUE, [name |-> req[r].theme]))]
  /\ pc' = [pc EXCEPT ![r] = "coords"]
  /\ UNCHANGED <<req, resp, running, imported, THEME, locals, future, gresp>>

\* Line 46, load_theme returns and the module global is assigned.
LoadTheme(r) ==
  /\ pc[r] = "load"
  /\ running = r
  /\ THEME' = load_theme(req[r].theme)
  /\ calls' = [calls EXCEPT ![r] =
                 Append(@, Call("load_theme", <<req[r].theme>>, TRUE, load_theme(req[r].theme)))]
  /\ pc' = [pc EXCEPT ![r] = "coords"]
  /\ UNCHANGED <<req, resp, running, imported, locals, future, gresp>>

\* Variant of LoadThemeRaises: the module global is reset when load_theme
\* raises.
LoadThemeRaisesResetsTheme(r, e) ==
  /\ pc[r] = "load"
  /\ running = r
  /\ THEME' = InitialTheme
  /\ calls' = [calls EXCEPT ![r] = Append(@, Call("load_theme", <<req[r].theme>>, FALSE, e))]
  /\ Except(r, "load_theme", e)
  /\ UNCHANGED <<req, imported, locals, future, gresp>>

\* Line 46, load_theme raises: the assignment does not happen.
LoadThemeRaises(r, e) ==
  /\ pc[r] = "load"
  /\ running = r
  /\ calls' = [calls EXCEPT ![r] = Append(@, Call("load_theme", <<req[r].theme>>, FALSE, e))]
  /\ Except(r, "load_theme", e)
  /\ UNCHANGED <<req, imported, THEME, locals, future, gresp>>

\* Variant of GetCoordinates: the call is awaited, so the coroutine gives
\* up the event loop when it is over.
GetCoordinatesYields(r, pt) ==
  /\ pc[r] = "coords"
  /\ running = r
  /\ point' = [point EXCEPT ![r] = pt]
  /\ calls' = [calls EXCEPT ![r] =
                 Append(@, Call("get_coordinates", <<req[r].city, req[r].country>>, TRUE, pt))]
  /\ pc' = [pc EXCEPT ![r] = "filename"]
  /\ running' = 0
  /\ UNCHANGED <<req, resp, imported, THEME, available, out_path, future, gresp>>

\* Line 49, get_coordinates returns.
GetCoordinates(r, pt) ==
  /\ pc[r] = "coords"
  /\ running = r
  /\ point' = [point EXCEPT ![r] = pt]
  /\ calls' = [calls EXCEPT ![r] =
                 Append(@, Call("get_coordinates", GetCoordinatesArgs(req[r]), TRUE, pt))]
  /\ pc' = [pc EXCEPT ![r] = "filename"]
  /\ UNCHANGED <<req, resp, running, imported, THEME, available, out_path,
                 future, gresp>>

\* Variant of GetCoordinatesRaises: the exception is swallowed and the
\* handler goes on to the next step.
GetCoordinatesRaisesSwallowed(r, e) ==
  /\ pc[r] = "coords"
  /\ running = r
  /\ calls' = [calls EXCEPT ![r] =
                 Append(@, Call("get_coordinates", <<req[r].city, req[r].country>>, FALSE, e))]
  /\ pc' = [pc EXCEPT ![r] = "filename"]
  /\ UNCHANGED <<req, resp, running, imported, THEME, locals, future, gresp>>

\* Line 49, get_coordinates raises.
GetCoordinatesRaises(r, e) ==
  /\ pc[r] = "coords"
  /\ running = r
  /\ calls' = [calls EXCEPT ![r] =
                 Append(@, Call("get_coordinates", GetCoordinatesArgs(req[r]), FALSE, e))]
  /\ Except(r, "get_coordinates", e)
  /\ UNCHANGED <<req, imported, THEME, locals, future, gresp>>

\* Line 52, generate_output_filename returns.
GenerateOutputFilename(r, path) ==
  /\ pc[r] = "filename"
  /\ running = r
  /\ out_path' = [out_path EXCEPT ![r] = path]
  /\ calls' = [calls EXCEPT ![r] =
                 Append(@, Call("generate_output_filename",
                                GenerateOutputFilenameArgs(req[r]), TRUE, path))]
  /\ pc' = [pc EXCEPT ![r] = "dispatch"]
  /\ UNCHANGED <<req, resp, running, imported, THEME, available, point,
                 future, gresp>>

\* Line 52, generate_output_filename raises.
GenerateOutputFilenameRaises(r, e) ==
  /\ pc[r] = "filename"
  /\ running = r
  /\ calls' = [calls EXCEPT ![r] =
                 Append(@, Call("generate_output_filename",
                                GenerateOutputFilenameArgs(req[r]), FALSE, e))]
  /\ Except(r, "generate_output_filename", e)
  /\ UNCHANGED <<req, imported, THEME, locals, future, gresp>>

\* Variant of run_in_threadpool: the coroutine keeps the event loop while
\* create_poster runs, as a direct blocking call would.
run_in_threadpoolBlocking(r) ==
  /\ pc[r] = "dispatch"
  /\ running = r
  /\ future' = [future EXCEPT ![r] = [state |-> "queued", exc |-> NoExc]]
  /\ pc' = [pc EXCEPT ![r] = "await"]
  /\ UNCHANGED <<req, resp, running, imported, THEME, locals, calls, gresp>>

\* Line 55, run_in_threadpool: the call is queued for a worker thread and
\* the coroutine suspends, freeing the event loop.
run_in_threadpool(r) ==
  /\ pc[r] = "dispatch"
  /\ running = r
  /\ future' = [future EXCEPT ![r] = [state |-> "queued", exc |-> NoExc]]
  /\ pc' = [pc EXCEPT ![r] = "await"]
  /\ running' = 0
  /\ UNCHANGED <<req, resp, imported, THEME, locals, calls, gresp>>

\* Variant of WorkerStart: the render of an identical earlier request that
\* returned is reused and create_poster is not invoked again.
WorkerStartReusesResult(r) ==
  /\ future[r].state = "queued"
  /\ IF \E q \in Reqs \ {r} : req[q] = req[r] /\ future[q].state = "returned"
     THEN /\ future' = [future EXCEPT ![r].state = "returned"]
          /\ UNCHANGED calls
     ELSE /\ future' = [future EXCEPT ![r].state = "running"]
          /\ calls' = [calls EXCEPT ![r] =
                 Append(@, Call("create_poster",
                                <<req[r].city, req[r].country, point[r],
                                  req[r].distance, out_path[r], req[r].format>>,
                                TRUE, NoExc))]
  /\ UNCHANGED <<pc, req, resp, running, imported, THEME, locals, gresp>>

\* A worker thread takes the queued call and invokes create_poster.
WorkerStart(r) ==
  /\ future[r].state = "queued"
  /\ future' = [future EXCEPT ![r].state = "running"]
  /\ calls' = [calls EXCEPT ![r] =
                 Append(@, Call("create_poster",
                                CreatePosterArgs(req[r], point[r], out_path[r]), TRUE, NoExc))]
  /\ UNCHANGED <<pc, req, resp, running, imported, THEME, locals, gresp>>

\* create_poster returns in the worker thread.
CreatePosterReturns(r) ==
  /\ future[r].state = "running"
  /\ future' = [future EXCEPT ![r].state = "returned"]
  /\ UNCHANGED <<pc, req, resp, running, imported, THEME, locals, calls, gresp>>

\* create_poster raises in the worker thread.
CreatePosterRaises(r, e) ==
  /\ future[r].state = "running"
  /\ future' = [future EXCEPT ![r] = [state |-> "raised", exc |-> e]]
  /\ calls' = [calls EXCEPT ![r][Len(calls[r])] =
                 Call("create_poster", @.args, FALSE, e)]
  /\ UNCHANGED <<pc, req, resp, running, imported, THEME, locals, gresp>>

\* Variant of Resume: the handler stops waiting and answers although
\* create_poster may still be queued or running.
ResumeWithoutWaiting(r) ==
  /\ pc[r] = "await"
  /\ running = 0
  /\ IF future[r].state = "returned"
     THEN Respond(r, MapResult(out_path[r]))
     ELSE Respond(r, HTTPException(500,
            ErrorDetail(future[r].exc, format_exc("create_poster", future[r].exc))))
  /\ UNCHANGED <<req, imported, THEME, locals, future, calls, gresp>>

\* Lines 55-61: the awaited call is over and the event loop resumes the
\* coroutine, which returns the result or handles the exception.
Resume(r) ==
  /\ pc[r] = "await"
  /\ running = 0
  /\ future[r].state \in {"returned", "raised"}
  /\ IF future[r].state = "returned"
     THEN Respond(r, MapResult(out_path[r]))
     ELSE Except(r, "create_poster", future[r].exc)
  /\ UNCHANGED <<req, imported, THEME, locals, future, calls, gresp>>

\* The create-map handler of request r.
create_map(r) ==
  \/ ImportPoster(r)
  \/ \E e \in ImportErrors : ImportPosterFails(r, e)
  \/ \E avail \in AvailableChoices : GetAvailableThemes(r, avail)
  \/ \E e \in Exceptions : GetAvailableThemesRaises(r, e)
  \/ ValidateTheme(r)
  \/ LoadTheme(r)
  \/ \E e \in Exceptions : LoadThemeRaises(r, e)
  \/ \E pt \in Points : GetCoordinates(r, pt)
  \/ \E e \in Exceptions : GetCoordinatesRaises(r, e)
  \/ \E path \in Paths : GenerateOutputFilename(r, path)
  \/ \E e \in Exceptions : GenerateOutputFilenameRaises(r, e)
  \/ run_in_threadpool(r)
  \/ Resume(r)

\* The worker pool's part of request r.
Worker(r) ==
  \/ WorkerStart(r)
  \/ CreatePosterReturns(r)
  \/ \E e \in RenderErrors : CreatePosterRaises(r, e)

Next ==
  \/ \E r \in Reqs, body \in Bodies : Post(r, body)
  \/ \E r \in Reqs : create_map(r)
  \/ \E r \in Reqs : Worker(r)
  \/ root

Spec == Init /\ [][Next]_vars

\* ================================================================== claims
\* Helpers over the log of request r.
HasCall(r, fn) == \E i \in 1..Len(calls[r]) : calls[r][i].fn = fn
CallOf(r, fn) == calls[r][CHOOSE i \in 1..Len(calls[r]) : calls[r][i].fn = fn]
Returned(r, fn) == HasCall(r, fn) /\ CallOf(r, fn).ok
RaisedIn(r, fn) == HasCall(r, fn) /\ ~CallOf(r, fn).ok
Collaborators ==
  {"get_available_themes", "load_theme", "get_coordinates",
   "generate_output_filename", "create_poster"}

\* The body of a response is the catch-all detail {error, traceback}.
IsErrorDetail(response) ==
  /\ response.status = 500
  /\ "detail" \in DOMAIN response.body
  /\ DOMAIN response.body.detail = {"error", "traceback"}

\* The themes listed in the text of an unknown-theme detail: the items
\* after the three leading parts, separators skipped.
Listed(text) == [i \in 1..((Len(text) - 2) \div 2) |-> text[2 + 2 * i]]

\* ---------------------------------------------------------------- C1
\* C1: while a request's create_poster executes in the worker thread,
\* poster.THEME is load_theme of that request's own theme, whatever the
\* other requests do.
C1_RenderSeesOwnTheme ==
  \A r \in Reqs :
    future[r].state = "running" => THEME = load_theme(req[r].theme)

\* ---------------------------------------------------------------- C2
ThemeRejected(r) ==
  /\ Returned(r, "get_available_themes")
  /\ req[r].theme \notin Range(CallOf(r, "get_available_themes").val)

\* C2: a request whose theme is not among the themes get_available_themes
\* returned for it ends in a 400 whose detail names the requested theme and
\* lists exactly the returned themes; it never gets a 200 or a 500.
C2_UnknownThemeIs400 ==
  \A r \in Reqs :
    ThemeRejected(r) =>
      /\ pc[r] \in {"check", "done"}
      /\ \A i \in 1..Len(resp[r]) : resp[r][i].status \notin {200, 500}
      /\ pc[r] = "done" =>
           /\ Len(resp[r]) = 1
           /\ resp[r][1].status = 400
           /\ LET d == resp[r][1].body.detail.text
                  avail == CallOf(r, "get_available_themes").val
              IN /\ d[1] = "Theme '"
                 /\ d[2] = req[r].theme
                 /\ d[3] = "' not found. Available: "
                 /\ Len(d) = 3 + (IF Len(avail) = 0 THEN 0 ELSE 2 * Len(avail) - 1)
                 /\ Listed(d) = avail

C2_Witness ==
  \E r \in Reqs :
    /\ ThemeRejected(r)
    /\ pc[r] = "done"
    /\ resp[r][1].status = 400
    /\ Len(CallOf(r, "get_available_themes").val) = 2

\* ---------------------------------------------------------------- C3
ImportFailed(r) == RaisedIn(r, "import")

\* C3: when the import of the poster module fails for a request, the
\* request ends in a 500 whose detail is "Failed to import poster module: "
\* followed by the import error's message, and get_available_themes is not
\* invoked for it.
C3_ImportFailureIs500 ==
  \A r \in Reqs :
    ImportFailed(r) =>
      /\ pc[r] = "done"
      /\ resp[r] =
           << [status |-> 500,
               body |-> [detail |-> [text |->
                 <<"Failed to import poster module: ",
                   ExcStr(CallOf(r, "import").val)>>]]] >>
      /\ ~HasCall(r, "get_available_themes")

C3_Witness ==
  \E r \in Reqs :
    /\ ImportFailed(r)
    /\ Len(resp[r]) = 1
    /\ req[r].theme = "minimal"

\* ---------------------------------------------------------------- C4
\* C4: when a collaborator raised during a request, the request's response
\* is the 500 with detail {error: the exception's message, traceback}.
C4_EveryFailureStructured ==
  \A r \in Reqs :
    \A fn \in Collaborators :
      (pc[r] = "done" /\ RaisedIn(r, fn)) =>
        /\ Len(resp[r]) = 1
        /\ IsErrorDetail(resp[r][1])
        /\ resp[r][1].body.detail.error = ExcStr(CallOf(r, fn).val)

\* ---------------------------------------------------------------- C5
ThemeAccepted(r) ==
  /\ Returned(r, "get_available_themes")
  /\ req[r].theme \in Range(CallOf(r, "get_available_themes").val)
NothingRaised(r) == \A i \in 1..Len(calls[r]) : calls[r][i].ok

\* C5: a finished request with a valid theme in which nothing raised was
\* answered 200 {output_file: p}, p being what generate_output_filename
\* returned for (city, theme, format) of the request and the path
\* create_poster was called with.
C5_OutputFileIsGeneratedPath ==
  \A r \in Reqs :
    (pc[r] = "done" /\ ThemeAccepted(r) /\ NothingRaised(r)) =>
      /\ HasCall(r, "generate_output_filename")
      /\ HasCall(r, "create_poster")
      /\ LET g == CallOf(r, "generate_output_filename")
             c == CallOf(r, "create_poster")
         IN /\ g.args = <<req[r].city, req[r].theme, req[r].format>>
            /\ resp[r] = << [status |-> 200, body |-> [output_file |-> g.val]] >>
            /\ c.args[5] = g.val

C5_Witness ==
  \E r, q \in Reqs :
    /\ pc[r] = "done" /\ ThemeAccepted(r) /\ NothingRaised(r)
    /\ pc[q] = "done" /\ ThemeAccepted(q) /\ NothingRaised(q)
    /\ resp[r][1].body.output_file # resp[q][1].body.output_file

\* ---------------------------------------------------------------- C6
\* C6: a request whose create_poster raised is answered with a 500 whose
\* detail.error is str() of the raised exception, and never with a 200.
C6_RenderFailureIs500 ==
  \A r \in Reqs :
    future[r].state = "raised" =>
      /\ \A i \in 1..Len(resp[r]) : resp[r][i].status # 200
      /\ pc[r] = "done" =>
           /\ Len(resp[r]) = 1
           /\ IsErrorDetail(resp[r][1])
           /\ resp[r][1].body.detail.error = ExcStr(future[r].exc)

C6_Witness ==
  \E r, q \in Reqs :
    /\ future[r].state = "raised" /\ pc[r] = "done"
    /\ resp[r][1].body.detail.error = "cannot write poster"
    /\ future[q].state = "raised" /\ pc[q] = "done"
    /\ resp[q][1].body.detail.error = ""

\* ---------------------------------------------------------------- C7
\* C7: every answer to GET / is exactly {"message": "Hello World"}, and the
\* step that gives it makes no collaborator call and leaves poster.THEME and
\* every create-map request as they were.
C7_RootIsFixedAndPure ==
  [][ gresp' # gresp =>
        /\ gresp' = Append(gresp,
             [status |-> 200, body |-> [message |-> "Hello World"]])
        /\ calls' = calls
        /\ THEME' = THEME
        /\ imported' = imported
        /\ <<pc, req, resp, future>>' = <<pc, req, resp, future>> ]_vars

\* GET / was answered with one request rendering, another failed and the
\* poster module imported.
C7_Witness ==
  /\ Len(gresp) >= 1
  /\ \E r, q \in Reqs :
       /\ future[r].state = "running"
       /\ pc[q] = "done" /\ resp[q][1].status = 500

\* ---------------------------------------------------------------- C8
\* C8: get_coordinates is never invoked with an empty city or country, and
\* create_poster is never invoked with a distance <= 0.
C8_FieldsAreValidated ==
  \A r \in Reqs :
    /\ HasCall(r, "get_coordinates") =>
         /\ CallOf(r, "get_coordinates").args[1] # ""
         /\ CallOf(r, "get_coordinates").args[2] # ""
    /\ HasCall(r, "create_poster") => CallOf(r, "create_poster").args[4] > 0

\* ---------------------------------------------------------------- C9
\* C9: a request with a valid theme is never answered 400 or 422, whatever
\* its format; the format reaches generate_output_filename and create_poster
\* unchanged; and if the request does not end in a 200, a collaborator
\* raised and the answer is the 500 {error, traceback}.
C9_FormatNotValidated ==
  \A r \in Reqs :
    ThemeAccepted(r) =>
      /\ \A i \in 1..Len(resp[r]) : resp[r][i].status \in {200, 500}
      /\ HasCall(r, "generate_output_filename") =>
           CallOf(r, "generate_output_filename").args[3] = req[r].format
      /\ HasCall(r, "create_poster") =>
           CallOf(r, "create_poster").args[6] = req[r].format
      /\ (pc[r] = "done" /\ resp[r][1].status # 200) =>
           /\ \E fn \in Collaborators : RaisedIn(r, fn)
           /\ IsErrorDetail(resp[r][1])

\* A request with a format outside png, svg, pdf was rendered and answered 200.
C9_Witness ==
  \E r \in Reqs :
    /\ ThemeAccepted(r)
    /\ req[r].format = "bmp"
    /\ pc[r] = "done"
    /\ resp[r][1].status = 200
    /\ CallOf(r, "create_poster").args[6] = "bmp"

\* --------------------------------------------------------------- C10
Pipeline ==
  <<"import", "get_available_themes", "load_theme", "get_coordinates",
    "generate_output_filename", "create_poster">>

\* C10: the calls of a request are a prefix of import, get_available_themes,
\* load_theme, get_coordinates, generate_output_filename, create_poster, each
\* made only after all earlier ones returned and, from load_theme on, only
\* for a theme that passed validation; create_poster is invoked only after
\* the request's load_theme has assigned its theme; and a 200 is sent only
\* after create_poster returned.
C10_StepsInOrder ==
  \A r \in Reqs :
    /\ Len(calls[r]) <= Len(Pipeline)
    /\ \A i \in 1..Len(calls[r]) :
         /\ calls[r][i].fn = Pipeline[i]
         /\ i < Len(calls[r]) => calls[r][i].ok
    /\ HasCall(r, "load_theme") => ThemeAccepted(r)
    /\ HasCall(r, "create_poster") =>
         /\ CallOf(r, "load_theme").val = load_theme(req[r].theme)
         /\ CallOf(r, "create_poster").args[3] = CallOf(r, "get_coordinates").val
         /\ CallOf(r, "create_poster").args[5] = CallOf(r, "generate_output_filename").val
    /\ \A i \in 1..Len(resp[r]) :
         resp[r][i].status = 200 =>
           /\ future[r].state = "returned"
           /\ Len(calls[r]) = Len(Pipeline)

C10_Witness ==
  \E r, q \in Reqs :
    /\ pc[r] = "done" /\ resp[r][1].status = 200
    /\ pc[q] = "done" /\ RaisedIn(q, "generate_output_filename")

\* --------------------------------------------------------------- C11
Rendering(r) == future[r].state \in {"queued", "running"}

\* C11: a request whose create_poster is queued or running in the worker
\* pool does not hold the event loop: whenever the loop is free meanwhile,
\* a GET / can be answered and a waiting create-map handler can start.
C11_FrontDoorKeepsServing ==
  \A r \in Reqs :
    Rendering(r) =>
      /\ running # r
      /\ (running = 0 /\ Len(gresp) < NumGets) => ENABLED root
      /\ \A q \in Reqs :
           (running = 0 /\ pc[q] = "ready") => ENABLED ImportPoster(q)

\* Two renders are in progress at once, and a GET / can be answered now,
\* before either of them finishes.
C11_Witness ==
  \E r, q \in Reqs :
    /\ r # q
    /\ future[r].state = "running"
    /\ future[q].state = "running"
    /\ ENABLED root

\* --------------------------------------------------------------- C12
\* The positions of a handler between its start and its dispatch of
\* create_poster.
SyncSection == {"themes", "check", "load", "coords", "filename", "dispatch"}

\* C12: from the start of a request's handler until its create_poster is
\* dispatched the request holds the event loop, and while it does no other
\* create-map request is parsed, started, resumed or answered and no GET /
\* is answered.
C12_NoYieldBeforeDispatch ==
  [][ \A r \in Reqs :
        /\ pc[r] \in SyncSection => running = r
        /\ running = r =>
             /\ \A q \in Reqs \ {r} : pc'[q] = pc[q] /\ resp'[q] = resp[q]
             /\ gresp' = gresp ]_vars

\* A handler is past get_coordinates and not yet dispatched while another
\* request, whose render is over, waits for the event loop to be answered.
C12_Witness ==
  \E r, q \in Reqs :
    /\ running = r
    /\ pc[r] = "filename"
    /\ pc[q] = "await"
    /\ future[q].state = "returned"

\* --------------------------------------------------------------- C13
\* C13: while a request's create_poster is queued or running the request
\* has no response and its handler stays suspended at the await; once the
\* handler has answered, the answer is the 200 if create_poster returned
\* and the 500 {error, traceback} if it raised.
C13_NoCancelNoTimeout ==
  \A r \in Reqs :
    /\ Rendering(r) => (resp[r] = <<>> /\ pc[r] = "await")
    /\ future[r].state \in {"returned", "raised"} =>
         /\ pc[r] \in {"await", "done"}
         /\ pc[r] = "await" => resp[r] = <<>>
         /\ pc[r] = "done" =>
              /\ Len(resp[r]) = 1
              /\ resp[r][1].status =
                   (IF future[r].state = "returned" THEN 200 ELSE 500)
              /\ future[r].state = "raised" => IsErrorDetail(resp[r][1])

\* One render is still running and unanswered while another request, whose
\* render raised, has its 500.
C13_Witness ==
  \E r, q \in Reqs :
    /\ future[r].state = "running"
    /\ resp[r] = <<>>
    /\ future[q].state = "raised"
    /\ pc[q] = "done"
    /\ resp[q][1].status = 500

\* --------------------------------------------------------------- C14
\* The number of create_poster invocations made for request r.
NumCreatePoster(r) ==
  Cardinality({ i \in 1..Len(calls[r]) : calls[r][i].fn = "create_poster" })

\* Request r passed theme validation, load_theme, get_coordinates and
\* generate_output_filename without error.
PassedToRender(r) ==
  /\ ThemeAccepted(r)
  /\ Returned(r, "load_theme")
  /\ Returned(r, "get_coordinates")
  /\ Returned(r, "generate_output_filename")

\* C14: create_poster is invoked at most once per request; a finished
\* request has exactly one invocation if it passed theme validation,
\* load_theme, get_coordinates and generate_output_filename, and none
\* otherwise, whether or not an identical request was rendered before and
\* whether or not the invocation raised.  Over the finished requests the
\* invocations therefore number as many as the requests that passed.
C14_OneRenderPerPassedRequest ==
  \A r \in Reqs :
    /\ NumCreatePoster(r) <= 1
    /\ NumCreatePoster(r) = 1 => PassedToRender(r)
    /\ future[r].state \in {"running", "returned", "raised"} =>
         NumCreatePoster(r) = 1
    /\ pc[r] = "done" =>
         NumCreatePoster(r) = (IF PassedToRender(r) THEN 1 ELSE 0)

\* Two identical requests are finished, each with its own create_poster
\* invocation, the first of which had returned.
C14_Witness ==
  \E r, q \in Reqs :
    /\ r # q
    /\ req[r] = req[q]
    /\ pc[r] = "done" /\ pc[q] = "done"
    /\ future[r].state = "returned"
    /\ NumCreatePoster(r) = 1
    /\ NumCreatePoster(q) = 1

\* --------------------------------------------------------------- C15
\* C15: from a request's assignment of poster.THEME until its create_poster
\* is handed to the worker pool, poster.THEME is load_theme of the request's
\* own theme, and it still is right after the hand-over.
C15_OwnThemeAtDispatch ==
  [][ \A r \in Reqs :
        /\ pc[r] \in {"coords", "filename", "dispatch"} =>
             THEME = load_theme(req[r].theme)
        /\ (future[r].state = "none" /\ future'[r].state = "queued") =>
             THEME' = load_theme(req[r].theme) ]_vars

\* A request is about to hand its create_poster to the pool with its own
\* theme in poster.THEME, while a request with another theme is rendering.
C15_Witness ==
  \E r, q \in Reqs :
    /\ pc[r] = "dispatch"
    /\ THEME = load_theme(req[r].theme)
    /\ Rendering(q)
    /\ req[q].theme # req[r].theme

\* --------------------------------------------------------------- C16
\* Request r ended in the import-failure 500 or in the unknown-theme 400.
EndedBeforeLoad(r) ==
  \/ ImportFailed(r)
  \/ pc[r] = "done" /\ ThemeRejected(r)

\* C16: the steps a handler takes up to and including its theme validation
\* leave poster.THEME as it was, and a request that ended in the
\* import-failure 500 or the unknown-theme 400 has invoked none of
\* load_theme, get_coordinates, generate_output_filename and create_poster.
C16_EarlyExitTouchesNothing ==
  [][ \A r \in Reqs :
        /\ (pc[r] \in {"ready", "themes", "check"} /\ pc'[r] # pc[r]) =>
             THEME' = THEME
        /\ EndedBeforeLoad(r)' =>
             \A fn \in {"load_theme", "get_coordinates",
                        "generate_output_filename", "create_poster"} :
               ~HasCall(r, fn)' ]_vars

\* One request ended in the import-failure 500 and another in the
\* unknown-theme 400.
C16_Witness ==
  \E r, q \in Reqs :
    /\ ImportFailed(q)
    /\ pc[r] = "done" /\ ThemeRejected(r)
    /\ resp[r][1].status = 400
    /\ resp[q][1].status = 500

\* --------------------------------------------------------------- C17
\* This step is the return of request r's load_theme call.
LoadReturnedStep(r) ==
  /\ Len(calls'[r]) = Len(calls[r]) + 1
  /\ calls'[r][Len(calls'[r])].fn = "load_theme"
  /\ calls'[r][Len(calls'[r])].ok

\* C17: poster.THEME has its initial value as long as no load_theme call
\* has returned; the return of a request's load_theme call, which only a
\* request that passed theme validation makes, sets it to load_theme of
\* that request's theme; and no other step changes it, neither a load_theme
\* that raises nor the failure of a later step.  Hence poster.THEME is
\* always its initial value or load_theme of the theme of the request whose
\* load_theme returned most recently.
C17_ThemeIsLastLoaded ==
  [][ /\ (\A r \in Reqs : ~Returned(r, "load_theme")) => THEME = InitialTheme
      /\ \A r \in Reqs :
           LoadReturnedStep(r) =>
             /\ THEME' = load_theme(req[r].theme)
             /\ ThemeAccepted(r)
      /\ (\A r \in Reqs : ~LoadReturnedStep(r)) => THEME' = THEME ]_vars

\* poster.THEME still holds the theme of a request that failed after its
\* load_theme returned, while the load_theme of a request with another
\* theme raised.
C17_Witness ==
  \E r, q \in Reqs :
    /\ Returned(r, "load_theme")
    /\ pc[r] = "done" /\ resp[r][1].status = 500
    /\ RaisedIn(q, "load_theme")
    /\ req[q].theme # req[r].theme
    /\ THEME = load_theme(req[r].theme)

\* --------------------------------------------------------------- C18
\* The four outcomes of the create-map handler: 200 {output_file}, 400
\* theme not found, 500 import failure, 500 {error, traceback}.
IsHandlerOutcome(response) ==
  \/ response.status = 200 /\ DOMAIN response.body = {"output_file"}
  \/ /\ response.status = 400
     /\ "detail" \in DOMAIN response.body
     /\ DOMAIN response.body.detail = {"text"}
     /\ response.body.detail.text[1] = "Theme '"
  \/ /\ response.status = 500
     /\ "detail" \in DOMAIN response.body
     /\ DOMAIN response.body.detail = {"text"}
     /\ response.body.detail.text[1] = "Failed to import poster module: "
  \/ IsErrorDetail(response)

\* C18: a create-map request whose handler has run and finished received
\* exactly one response, and that response is one of 200 {output_file},
\* 400 theme not found, 500 import failure, 500 {error, traceback}.
C18_OneListedResponse ==
  \A r \in Reqs :
    (pc[r] = "done" /\ HasCall(r, "import")) =>
      /\ Len(resp[r]) = 1
      /\ IsHandlerOutcome(resp[r][1])

====
